---- MODULE Spec2Model ----
(***************************************************************************)
(* A model of the EMQ exporter's collection cycle (collector.go): the four *)
(* fetch-and-decode operations, the metric registry, and Collect, run by   *)
(* overlapping scrape goroutines against one shared Collector.             *)
(*                                                                         *)
(* Strings the code inspects character by character (the memory fields)    *)
(* are sequences of one-character strings; every other string is opaque.   *)
(* Metric values are exact decimals: float64 rounding is outside the       *)
(* model.                                                                  *)
(***************************************************************************)
EXTENDS Integers, Sequences, FiniteSets, TLC

(* ------------------------------ bounds --------------------------------- *)

\* Collect invocations started in one behaviour (caps totalScrapes).
MaxScrapes == 2

\* Longest enumerated memory-field string.
MaxLen == 4

\* Largest enumerated subscribers and subscriptions count.
MaxCount == 7

\* Scrape goroutines that may run Collect at the same time.
Procs == {"g1", "g2"}

(* --------------------------- configuration ----------------------------- *)

\* emq.node, the node identifier the collector is built with.
c_node == "emq@127.0.0.1"

OtherNode == "emq@10.0.0.2"

(* ------------------------- response schema ----------------------------- *)
\* The struct fields with their json tags, in declaration order.

nodesResponseResult ==
  <<
    [field |-> "NodeName", type |-> "string", key |-> "name"],
    [field |-> "Release", type |-> "string", key |-> "otp_release"],
    [field |-> "Status", type |-> "string", key |-> "node_status"],
    [field |-> "MemoryTotal", type |-> "string", key |-> "memory_total"],
    [field |-> "MemoryUsed", type |-> "string", key |-> "memory_used"],
    [field |-> "ProcessesAvailable", type |-> "int", key |-> "process_available"],
    [field |-> "ProcessesUsed", type |-> "int", key |-> "process_used"],
    [field |-> "MaxFds", type |-> "int", key |-> "max_fds"],
    [field |-> "Clients", type |-> "int", key |-> "clients"],
    [field |-> "Load1", type |-> "string", key |-> "load1"],
    [field |-> "Load5", type |-> "string", key |-> "load5"],
    [field |-> "Load15", type |-> "string", key |-> "load15"]
  >>

metricsResponseResult ==
  <<
    [field |-> "MessagesDropped", type |-> "int", key |-> "messages/dropped"],
    [field |-> "PacketsReceived", type |-> "int", key |-> "packets/received"],
    [field |-> "PacketsPubcompReceived", type |-> "int", key |-> "packets/pubcomp/received"],
    [field |-> "PacketsUnsuback", type |-> "int", key |-> "packets/unsuback"],
    [field |-> "PacketsPingresp", type |-> "int", key |-> "packets/pingresp"],
    [field |-> "PacketsPingreq", type |-> "int", key |-> "packets/pingreq"],
    [field |-> "MessagesQos0Sent", type |-> "int", key |-> "messages/qos0/sent"],
    [field |-> "MessagesQos2Received", type |-> "int", key |-> "messages/qos2/received"],
    [field |-> "PacketsPubcompMissed", type |-> "int", key |-> "packets/pubcomp/missed"],
    [field |-> "MessagesRetained", type |-> "int", key |-> "messages/retained"],
    [field |-> "PacketsSuback", type |-> "int", key |-> "packets/suback"],
    [field |-> "BytesSent", type |-> "int", key |-> "bytes/sent"],
    [field |-> "PacketsPubackReceived", type |-> "int", key |-> "packets/puback/received"],
    [field |-> "PacketsPubrecReceived", type |-> "int", key |-> "packets/pubrec/received"],
    [field |-> "MessagesQos2Sent", type |-> "int", key |-> "messages/qos2/sent"],
    [field |-> "PacketsPubrecSent", type |-> "int", key |-> "packets/pubrec/sent"],
    [field |-> "PacketsPubackSent", type |-> "int", key |-> "packets/puback/sent"],
    [field |-> "PacketsPubrelMissed", type |-> "int", key |-> "packets/pubrel/missed"],
    [field |-> "PacketsConnect", type |-> "int", key |-> "packets/connect"],
    [field |-> "MessagesQos1Sent", type |-> "int", key |-> "messages/qos1/sent"],
    [field |-> "PacketsConnack", type |-> "int", key |-> "packets/connack"],
    [field |-> "PacketsPubrelReceived", type |-> "int", key |-> "packets/pubrel/received"],
    [field |-> "PacketsPublishReceived", type |-> "int", key |-> "packets/publish/received"],
    [field |-> "BytesReceived", type |-> "int", key |-> "bytes/received"],
    [field |-> "PacketsPubrelSent", type |-> "int", key |-> "packets/pubrel/sent"],
    [field |-> "PacketsPubrecMissed", type |-> "int", key |-> "packets/pubrec/missed"],
    [field |-> "PacketsSent", type |-> "int", key |-> "packets/sent"],
    [field |-> "MessagesQos0Received", type |-> "int", key |-> "messages/qos0/received"],
    [field |-> "PacketsPubcompSent", type |-> "int", key |-> "packets/pubcomp/sent"],
    [field |-> "MessagesReceived", type |-> "int", key |-> "messages/received"],
    [field |-> "MessagesSent", type |-> "int", key |-> "messages/sent"],
    [field |-> "PacketsSubscribe", type |-> "int", key |-> "packets/subscribe"],
    [field |-> "MessagesQos2Dropped", type |-> "int", key |-> "messages/qos2/dropped"],
    [field |-> "PacketsUnsubscribe", type |-> "int", key |-> "packets/unsubscribe"],
    [field |-> "MessagesQos1Received", type |-> "int", key |-> "messages/qos1/received"],
    [field |-> "PacketsDisconnect", type |-> "int", key |-> "packets/disconnect"],
    [field |-> "PacketsPublishSent", type |-> "int", key |-> "packets/publish/sent"],
    [field |-> "PacketsPubackMissed", type |-> "int", key |-> "packets/puback/missed"]
  >>

statsResponseResult ==
  <<
    [field |-> "ClientsCount", type |-> "int", key |-> "clients/count"],
    [field |-> "ClientsMax", type |-> "int", key |-> "clients/max"],
    [field |-> "RetainedCount", type |-> "int", key |-> "retained/count"],
    [field |-> "RetainedMax", type |-> "int", key |-> "retained/max"],
    [field |-> "RoutesCount", type |-> "int", key |-> "routes/count"],
    [field |-> "RoutesMax", type |-> "int", key |-> "routes/max"],
    [field |-> "SessionsCount", type |-> "int", key |-> "sessions/count"],
    [field |-> "SessionsMax", type |-> "int", key |-> "sessions/max"],
    [field |-> "SubscribersCount", type |-> "int", key |-> "subscribers/count"],
    [field |-> "SubscribersMax", type |-> "int", key |-> "subscribers/max"],
    [field |-> "SubscriptionsCount", type |-> "int", key |-> "subscriptions/count"],
    [field |-> "SubscriptionsMax", type |-> "int", key |-> "subscriptions/max"],
    [field |-> "TopicsCount", type |-> "int", key |-> "topics/count"],
    [field |-> "TopicsMax", type |-> "int", key |-> "topics/max"]
  >>

ManagementResponseResult ==
  <<
    [field |-> "Name", type |-> "string", key |-> "name"],
    [field |-> "Version", type |-> "string", key |-> "version"],
    [field |-> "Sysdescr", type |-> "string", key |-> "sysdescr"],
    [field |-> "Uptime", type |-> "string", key |-> "uptime"],
    [field |-> "Datetime", type |-> "string", key |-> "datetime"],
    [field |-> "OtpRelease", type |-> "string", key |-> "otp_release"],
    [field |-> "NodeStatus", type |-> "string", key |-> "node_status"]
  >>

c_metrics ==
  <<
    [name |-> "emq_cluster_size", from |-> "ClusterSize", field |-> "ClusterSize"],
    [name |-> "emq_node_process_used", from |-> "nodes", field |-> "ProcessesUsed"],
    [name |-> "emq_node_process_available", from |-> "nodes", field |-> "ProcessesAvailable"],
    [name |-> "emq_node_max_fds", from |-> "nodes", field |-> "MaxFds"],
    [name |-> "emq_node_memory_total", from |-> "memory", field |-> "MemoryTotal"],
    [name |-> "emq_node_memory_used", from |-> "memory", field |-> "MemoryUsed"],
    [name |-> "emq_metric_packets_disconnected", from |-> "metrics", field |-> "PacketsDisconnect"],
    [name |-> "emq_metric_messages_qos2_received", from |-> "metrics", field |-> "MessagesQos2Received"],
    [name |-> "emq_metric_packets_suback", from |-> "metrics", field |-> "PacketsSuback"],
    [name |-> "emq_metric_packets_pubcomp_received", from |-> "metrics", field |-> "PacketsPubcompReceived"],
    [name |-> "emq_metric_packets_unsuback", from |-> "metrics", field |-> "PacketsUnsuback"],
    [name |-> "emq_metric_packets_pingresp", from |-> "metrics", field |-> "PacketsPingresp"],
    [name |-> "emq_metric_packets_pingreq", from |-> "metrics", field |-> "PacketsPingreq"],
    [name |-> "emq_metric_packets_pubrel_missed", from |-> "metrics", field |-> "PacketsPubrelMissed"],
    [name |-> "emq_metric_packets_sent", from |-> "metrics", field |-> "PacketsSent"],
    [name |-> "emq_metric_messages_qos2_sent", from |-> "metrics", field |-> "MessagesQos2Sent"],
    [name |-> "emq_metric_packets_pubrec_missed", from |-> "metrics", field |-> "PacketsPubrecMissed"],
    [name |-> "emq_metric_packets_unsubscribe", from |-> "metrics", field |-> "PacketsUnsubscribe"],
    [name |-> "emq_metric_bytes_received", from |-> "metrics", field |-> "BytesReceived"],
    [name |-> "emq_metric_packets_connack", from |-> "metrics", field |-> "PacketsConnack"],
    [name |-> "emq_metric_messages_received", from |-> "metrics", field |-> "MessagesReceived"],
    [name |-> "emq_metric_messages_dropped", from |-> "metrics", field |-> "MessagesDropped"],
    [name |-> "emq_metric_packets_pubrec_sent", from |-> "metrics", field |-> "PacketsPubrecSent"],
    [name |-> "emq_metric_messages_retained", from |-> "metrics", field |-> "MessagesRetained"],
    [name |-> "emq_metric_packets_publish_received", from |-> "metrics", field |-> "PacketsPublishReceived"],
    [name |-> "emq_metric_packets_pubcomp_sent", from |-> "metrics", field |-> "PacketsPubcompSent"],
    [name |-> "emq_metric_packets_connect", from |-> "metrics", field |-> "PacketsConnect"],
    [name |-> "emq_metric_packets_puback_received", from |-> "metrics", field |-> "PacketsPubackReceived"],
    [name |-> "emq_metric_messages_sent", from |-> "metrics", field |-> "MessagesSent"],
    [name |-> "emq_metric_packets_publish_sent", from |-> "metrics", field |-> "PacketsPublishSent"],
    [name |-> "emq_metric_bytes_sent", from |-> "metrics", field |-> "BytesSent"],
    [name |-> "emq_metric_packets_puback_sent", from |-> "metrics", field |-> "PacketsPubackSent"],
    [name |-> "emq_metric_messages_qos2_dropped", from |-> "metrics", field |-> "MessagesQos2Dropped"],
    [name |-> "emq_metric_packets_pubrel_sent", from |-> "metrics", field |-> "PacketsPubrelSent"],
    [name |-> "emq_metric_messages_qos1_sent", from |-> "metrics", field |-> "MessagesQos1Sent"],
    [name |-> "emq_metric_packets_pubrel_received", from |-> "metrics", field |-> "PacketsPubrelReceived"],
    [name |-> "emq_metric_messages_qos1_received", from |-> "metrics", field |-> "MessagesQos1Received"],
    [name |-> "emq_metric_messages_qos0_sent", from |-> "metrics", field |-> "MessagesQos0Sent"],
    [name |-> "emq_metric_packets_received", from |-> "metrics", field |-> "PacketsReceived"],
    [name |-> "emq_metric_packets_pubrec_received", from |-> "metrics", field |-> "PacketsPubrecReceived"],
    [name |-> "emq_metric_packets_pubcomp_missed", from |-> "metrics", field |-> "PacketsPubcompMissed"],
    [name |-> "emq_metric_packets_puback_missed", from |-> "metrics", field |-> "PacketsPubackMissed"],
    [name |-> "emq_stats_clients", from |-> "stats", field |-> "ClientsCount"],
    [name |-> "emq_stats_retained", from |-> "stats", field |-> "RetainedCount"],
    [name |-> "emq_stats_routes", from |-> "stats", field |-> "RoutesCount"],
    [name |-> "emq_stats_sessions", from |-> "stats", field |-> "SessionsCount"],
    [name |-> "emq_stats_subscribers", from |-> "stats", field |-> "SubscribersCount"],
    [name |-> "emq_stats_subscriptions", from |-> "stats", field |-> "SubscribersCount"],
    [name |-> "emq_stats_topics", from |-> "stats", field |-> "TopicsCount"]
  >>

(* ----------------------------- helpers --------------------------------- *)

Fields(tags) == {tags[i].field : i \in DOMAIN tags}

Keys(tags) == {tags[i].key : i \in DOMAIN tags}

TagOf(tags, f) == tags[CHOOSE i \in DOMAIN tags : tags[i].field = f]

KeyIndex(tags, k) == CHOOSE i \in DOMAIN tags : tags[i].key = k

\* The json keys whose string values the registry reads character by character.
CharKeys == {"memory_total", "memory_used"}

\* Go's zero value of a struct field.
ZeroValue(tag) ==
  IF tag.type = "int" THEN 0
  ELSE IF tag.key \in CharKeys THEN <<>> ELSE ""

(* ------------------ validID and the memory extraction ------------------ *)

Digits == <<"0", "1", "2", "3", "4", "5", "6", "7", "8", "9">>

IsDigit(ch) == \E i \in DOMAIN Digits : Digits[i] = ch

DigitVal(ch) == (CHOOSE i \in DOMAIN Digits : Digits[i] = ch) - 1

\* A float64 value, kept exact as mant * 10^exp with mant not a multiple of
\* ten (0 is 0 * 10^0), so that equal numbers are equal records.
RECURSIVE Float(_, _)
Float(mant, exp) ==
  IF mant = 0 THEN [mant |-> 0, exp |-> 0]
  ELSE IF mant % 10 = 0 THEN Float(mant \div 10, exp + 1)
  ELSE [mant |-> mant, exp |-> exp]

\* float64(n) of an int.
float64(n) == Float(n, 0)

\* x * y of two float64 values.
Times(x, y) == Float(x.mant * y.mant, x.exp + y.exp)

\* Length of the longest run of digits of s that starts at position i.
RECURSIVE DigitRun(_, _)
DigitRun(s, i) ==
  IF i <= Len(s) /\ IsDigit(s[i]) THEN 1 + DigitRun(s, i + 1) ELSE 0

\* \d{1,}[.]\d{1,} at position i: the length matched, 0 when it does not match.
\* The first \d{1,} is greedy and gives digits back until a "." follows.
MatchDecimal(s, i) ==
  LET a == DigitRun(s, i)
      ok == {n \in 1..a : /\ i + n <= Len(s)
                          /\ s[i + n] = "."
                          /\ DigitRun(s, i + n + 1) >= 1}
  IN IF ok = {} THEN 0
     ELSE LET n == CHOOSE x \in ok : \A y \in ok : y <= x
          IN n + 1 + DigitRun(s, i + n + 1)

\* \d{1,} at position i.
MatchInteger(s, i) == DigitRun(s, i)

\* validID with its alternatives in the other order, \d{1,}|\d{1,}[.]\d{1,}.
validID_IntegerFirst(s, i) ==
  IF MatchInteger(s, i) > 0 THEN MatchInteger(s, i) ELSE MatchDecimal(s, i)

\* validID at position i: the alternatives are tried in the order written and
\* the first that matches wins (leftmost-first).
validID(s, i) ==
  IF MatchDecimal(s, i) > 0 THEN MatchDecimal(s, i) ELSE MatchInteger(s, i)

\* validID.FindAllString(s, -1): the successive non-overlapping matches.
RECURSIVE FindAllFrom(_, _)
FindAllFrom(s, i) ==
  IF i > Len(s) THEN <<>>
  ELSE LET n == validID(s, i)
       IN IF n = 0 THEN FindAllFrom(s, i + 1)
          ELSE <<SubSeq(s, i, i + n - 1)>> \o FindAllFrom(s, i + n)

FindAllString(s) == FindAllFrom(s, 1)

\* The value of a run of digits.
RECURSIVE Natural(_)
Natural(ds) ==
  IF ds = <<>> THEN 0
  ELSE 10 * Natural(SubSeq(ds, 1, Len(ds) - 1)) + DigitVal(ds[Len(ds)])

\* strconv.ParseFloat(str, 64) of a text validID matched: digits, or digits
\* "." digits.
ParseFloat(str) ==
  LET a == DigitRun(str, 1)
      frac == IF a < Len(str) THEN SubSeq(str, a + 2, Len(str)) ELSE <<>>
  IN Float(Natural(SubSeq(str, 1, a) \o frac), 0 - Len(frac))

\* The Value closure of memory_total and memory_used, given the field:
\* str[0] of an empty match list is an index out of range, a panic.
MemoryPanics(s) == FindAllString(s) = <<>>

MemoryValue(s) == Times(ParseFloat(FindAllString(s)[1]), float64(1000000))

(* --------------------------- the broker -------------------------------- *)
\* The broker's state: per endpoint, what decides the document it serves.
\* The memory texts are with a number, and without.
MemoryTotals == { <<"1", ".", "5", "M">>, <<"u", "n", "k", "n", "o", "w", "n">> }

MemoryUseds == { <<"6", "4", "M">>, <<>> }

Self(version) == [name |-> c_node, version |-> version]

Other == [name |-> OtherNode, version |-> "2.3.0"]

Memberships ==
  { <<>>,
    <<Other>>,
    <<Self("2.3.11")>>,
    <<Self("2.3.11"), Self("2.4.0")>>,
    <<Other, Self("2.3.11"), Other>> }

Baseline ==
  [nodes |-> [code |-> 0, memory_total |-> <<"1", ".", "5", "M">>,
              memory_used |-> <<"6", "4", "M">>],
   metrics |-> [code |-> 0],
   stats |-> [code |-> 0],
   management |-> [code |-> 0, members |-> <<Self("2.3.11")>>]]

NodesStates ==
  {st \in [code : {0, 1}, memory_total : MemoryTotals, memory_used : MemoryUseds] :
     st.memory_total = Baseline.nodes.memory_total
       \/ st.memory_used = Baseline.nodes.memory_used}

ManagementStates ==
  [code : {0}, members : Memberships]
    \cup [code : {1}, members : {<<Self("2.3.11")>>}]

\* The brokers considered: the state of at most one endpoint differs from the
\* baseline's.
Brokers ==
  {b \in [nodes : NodesStates, metrics : [code : {0, 1}],
          stats : [code : {0, 1}], management : ManagementStates] :
     Cardinality({e \in DOMAIN b : b[e] # Baseline[e]}) <= 1}

\* The JSON documents served: an object {result, code} whose result is an
\* object (shape "object") or a list of objects (shape "array"). Every
\* number in a document differs from every other.
NodesBody(st) ==
  [shape |-> "object", code |-> st.code,
   result |-> [k \in Keys(nodesResponseResult) |->
     CASE k = "name" -> c_node
       [] k = "otp_release" -> "R21"
       [] k = "node_status" -> "Running"
       [] k = "memory_total" -> st.memory_total
       [] k = "memory_used" -> st.memory_used
       [] k \in {"load1", "load5", "load15"} -> "1.00"
       [] OTHER -> 10 + KeyIndex(nodesResponseResult, k)]]

MetricsBody(st) ==
  [shape |-> "object", code |-> st.code,
   result |-> [k \in Keys(metricsResponseResult) |->
                 100 + KeyIndex(metricsResponseResult, k)]]

StatsBody(st) ==
  [shape |-> "object", code |-> st.code,
   result |-> [k \in Keys(statsResponseResult) |->
                 200 + KeyIndex(statsResponseResult, k)]]

Member(m) ==
  [k \in Keys(ManagementResponseResult) |->
     CASE k = "name" -> m.name
       [] k = "version" -> m.version
       [] k = "otp_release" -> "R21"
       [] k = "node_status" -> "Running"
       [] OTHER -> "x"]

ManagementBody(st) ==
  [shape |-> "array", code |-> st.code,
   result |-> [i \in DOMAIN st.members |-> Member(st.members[i])]]

\* The document a broker in state b serves at an endpoint.
Body(b, endpoint) ==
  CASE endpoint = "nodes" -> NodesBody(b.nodes)
    [] endpoint = "metrics" -> MetricsBody(b.metrics)
    [] endpoint = "stats" -> StatsBody(b.stats)
    [] endpoint = "management" -> ManagementBody(b.management)

(* --------------------------- json decoding ----------------------------- *)

\* A struct decoded from a JSON object: a tagged field takes the value under
\* its key and keeps its zero value when the key is absent; other keys of the
\* object are ignored.
DecodeStruct(tags, obj) ==
  [f \in Fields(tags) |->
     LET t == TagOf(tags, f)
     IN IF t.key \in DOMAIN obj THEN obj[t.key] ELSE ZeroValue(t)]

ZeroStruct(tags) == [f \in Fields(tags) |-> ZeroValue(TagOf(tags, f))]

\* The zero values of the four response types (var chr ...).
nodesResponse == [Result |-> ZeroStruct(nodesResponseResult), Code |-> 0]

metricsResponse == [Result |-> ZeroStruct(metricsResponseResult), Code |-> 0]

statsResponse == [Result |-> ZeroStruct(statsResponseResult), Code |-> 0]

managementResponse == [Result |-> <<>>, Code |-> 0]

ResultTags(op) ==
  CASE op = "nodes" -> nodesResponseResult
    [] op = "metrics" -> metricsResponseResult
    [] op = "stats" -> statsResponseResult

\* json.NewDecoder(res.Body).Decode(&chr) for the response type of `op`:
\* a list where the type has a struct, or an object where it has a slice, is
\* an error.
Decode(op, body) ==
  IF op = "management"
  THEN IF body.shape = "array"
       THEN [err |-> FALSE,
             chr |-> [Result |-> [i \in DOMAIN body.result |->
                                    DecodeStruct(ManagementResponseResult, body.result[i])],
                      Code |-> body.code]]
       ELSE [err |-> TRUE, chr |-> managementResponse]
  ELSE IF body.shape = "object"
       THEN [err |-> FALSE,
             chr |-> [Result |-> DecodeStruct(ResultTags(op), body.result),
                      Code |-> body.code]]
       ELSE [err |-> TRUE, chr |-> <<>>]

(* ------------------------------ paths ---------------------------------- *)

Ops == <<"nodes", "metrics", "stats", "management">>

\* u.Path as each fetch operation sets it.
PathOf(op) ==
  CASE op = "nodes" -> <<"/api/v2/monitoring/nodes/", c_node>>
    [] op = "metrics" -> <<"/api/v2/monitoring/metrics/", c_node>>
    [] op = "stats" -> <<"/api/v2/monitoring/stats/", c_node>>
    [] op = "management" -> <<"/api/v2/management/nodes">>

\* The endpoint of the broker that serves a path.
Route(path) == CHOOSE op \in {Ops[i] : i \in DOMAIN Ops} : PathOf(op) = path

(* ------------------------------ state ---------------------------------- *)

VARIABLES
  broker,             \* the broker's state, by endpoint
  url,                \* (**c.url).Path, the one URL all fetches share
  up,                 \* c.up
  totalScrapes,       \* c.totalScrapes
  jsonParseFailures,  \* c.jsonParseFailures
  pc,                 \* where each goroutine is in Collect
  nodes, metrics, stats, management,   \* Collect's locals, per goroutine
  values, managementData,
  panicking,          \* the goroutine is unwinding from a panic
  crashed,            \* the process died of an unrecovered panic
  sent,               \* what each invocation has handed to its channel
  reqs,               \* history: the fetches each invocation has made
  invoked,            \* history: Collect invocations begun
  memIn, memOut,      \* the memory extraction applied on its own
  statsIn, statsOut   \* the two subscriber entries applied on their own

vars ==
  <<broker, url, up, totalScrapes, jsonParseFailures, pc, nodes, metrics, stats,
    management, values, managementData, panicking, crashed, sent, reqs, invoked,
    memIn, memOut, statsIn, statsOut>>

\* A position in Collect: idle, set (about to write u.Path in the fetch `op`),
\* req (about to send that fetch's request), assemble, deferred, done.
At(at, op) == [at |-> at, op |-> op]

combinedResponse(n, m, s, size) ==
  [nodes |-> n, metrics |-> m, stats |-> s, ClusterSize |-> size]

ZeroValues == combinedResponse(nodesResponse, metricsResponse, statsResponse, 0)

ZeroMember == ZeroStruct(ManagementResponseResult)

\* The memory extraction has not been applied.
NotApplied == [done |-> FALSE, panics |-> FALSE, value |-> float64(0)]

\* The two subscriber entries have not been evaluated.
NotEvaluated ==
  [done |-> FALSE, subscribers |-> float64(0), subscriptions |-> float64(0)]

\* NewEMQCollector: the gauge and the counters start at 0; no scrape runs.
Init ==
  /\ broker \in Brokers
  /\ url = <<>>
  /\ up = 0
  /\ totalScrapes = 0
  /\ jsonParseFailures = 0
  /\ pc = [p \in Procs |-> At("idle", "")]
  /\ nodes = [p \in Procs |-> nodesResponse]
  /\ metrics = [p \in Procs |-> metricsResponse]
  /\ stats = [p \in Procs |-> statsResponse]
  /\ management = [p \in Procs |-> managementResponse]
  /\ values = [p \in Procs |-> ZeroValues]
  /\ managementData = [p \in Procs |-> ZeroMember]
  /\ panicking = [p \in Procs |-> FALSE]
  /\ crashed = FALSE
  /\ sent = [p \in Procs |-> <<>>]
  /\ reqs = [p \in Procs |-> <<>>]
  /\ invoked = 0
  /\ memIn = <<>>
  /\ memOut = NotApplied
  /\ statsIn = [subscribers |-> 0, subscriptions |-> 0]
  /\ statsOut = NotEvaluated

(* --------------------------- the registry ------------------------------ *)

\* metric.Value(values) panics (memory fields only).
Panics(m, v) == m.from = "memory" /\ MemoryPanics(v.nodes.Result[m.field])

\* A registry whose emq_stats_subscriptions entry reads the subscriptions
\* count.
Value_SubscriptionsOwnCount(m, v) ==
  IF m.name = "emq_stats_subscriptions"
  THEN float64(v.stats.Result.SubscriptionsCount)
  ELSE CASE m.from = "ClusterSize" -> float64(v.ClusterSize)
         [] m.from = "memory" -> MemoryValue(v.nodes.Result[m.field])
         [] OTHER -> float64(v[m.from].Result[m.field])

\* metric.Value(values).
Value(m, v) ==
  CASE m.from = "ClusterSize" -> float64(v.ClusterSize)
    [] m.from = "memory" -> MemoryValue(v.nodes.Result[m.field])
    [] OTHER -> float64(v[m.from].Result[m.field])

\* prometheus.MustNewConstMetric(metric.Desc, metric.Type, value, labels...).
Sample(m, v, md) ==
  [name |-> m.name, value |-> Value(m, v),
   node |-> v.nodes.Result.NodeName,
   otp_release |-> v.nodes.Result.Release,
   version |-> md.Version]

\* The index of the first registry entry whose Value panics; 0 when none does.
FirstPanic(v) ==
  LET bad == {i \in DOMAIN c_metrics : Panics(c_metrics[i], v)}
  IN IF bad = {} THEN 0 ELSE CHOOSE i \in bad : \A j \in bad : i <= j

\* The samples the loop over c.metrics sends: all of them, or those before
\* the first panic.
Evaluate(v, md) ==
  LET n == IF FirstPanic(v) = 0 THEN Len(c_metrics) ELSE FirstPanic(v) - 1
  IN [i \in 1..n |-> Sample(c_metrics[i], v, md)]

\* A loop that stops at the first record whose name is c.node.
RECURSIVE RangeMatch_Break(_, _, _)
RangeMatch_Break(result, i, md) ==
  IF i > Len(result) THEN md
  ELSE IF result[i].Name = c_node THEN result[i]
  ELSE RangeMatch_Break(result, i + 1, md)

\* The loop `for _, v := range management.Result`: every record whose name
\* is c.node is assigned in turn.
RECURSIVE RangeMatch(_, _, _)
RangeMatch(result, i, md) ==
  IF i > Len(result) THEN md
  ELSE RangeMatch(result, i + 1, IF result[i].Name = c_node THEN result[i] ELSE md)

(* ---------------------------- Collect ---------------------------------- *)

\* An increment that stores 1 instead of adding it.
Inc_StoresOne(counter) == 1

\* Counter.Inc().
Inc(counter) == counter + 1

\* An order of the fetches with the metrics and the stats exchanged.
NextOp_Swapped(op) ==
  CASE op = "nodes" -> "stats"
    [] op = "stats" -> "metrics"
    [] op = "metrics" -> "management"

\* The fetch operation Collect calls after `op`.
NextOp(op) ==
  CASE op = "nodes" -> "metrics"
    [] op = "metrics" -> "stats"
    [] op = "stats" -> "management"

\* c.totalScrapes.Inc() and the registration of the deferred sends.
Start(p) ==
  /\ ~crashed
  /\ pc[p].at \in {"idle", "done"}
  /\ invoked < MaxScrapes
  /\ totalScrapes' = Inc(totalScrapes)
  /\ invoked' = invoked + 1
  /\ pc' = [pc EXCEPT ![p] = At("set", "nodes")]
  /\ sent' = [sent EXCEPT ![p] = <<>>]
  /\ UNCHANGED <<broker, url, up, jsonParseFailures, nodes, metrics, stats, management,
                 values, managementData, panicking, crashed, reqs, memIn, memOut,
                 statsIn, statsOut>>

\* u := *c.url; u.Path = ...: the write goes to the URL every fetch shares.
SetPath(p, op) ==
  /\ ~crashed
  /\ pc[p] = At("set", op)
  /\ url' = PathOf(op)
  /\ pc' = [pc EXCEPT ![p] = At("req", op)]
  /\ UNCHANGED <<broker, up, totalScrapes, jsonParseFailures, nodes, metrics, stats,
                 management, values, managementData, panicking, crashed, sent, reqs,
                 invoked, memIn, memOut,
                 statsIn, statsOut>>

\* What the HTTP exchange can come to.
Outcomes == {"transport", "status", "malformed", "ok"}

\* A fetch operation that decodes the body before it looks at the status, so
\* that the body of an error response counts as a parse failure.
Fetch_DecodeBeforeStatus(op, path, outcome) ==
  CASE outcome = "transport" -> [error |-> "transport", chr |-> <<>>]
    [] outcome = "status" -> [error |-> "decode", chr |-> <<>>]
    [] outcome = "malformed" -> [error |-> "decode", chr |-> <<>>]
    [] outcome = "ok" ->
         LET d == Decode(op, Body(broker, Route(path)))
         IN IF d.err THEN [error |-> "decode", chr |-> <<>>]
            ELSE [error |-> "", chr |-> d.chr]

\* The result of one fetch operation that requested `path`:
\* the error kind ("" for none) and the decoded response.
Fetch(op, path, outcome) ==
  CASE outcome = "transport" -> [error |-> "transport", chr |-> <<>>]
    [] outcome = "status" -> [error |-> "status", chr |-> <<>>]
    [] outcome = "malformed" -> [error |-> "decode", chr |-> <<>>]
    [] outcome = "ok" ->
         LET d == Decode(op, Body(broker, Route(path)))
         IN IF d.err THEN [error |-> "decode", chr |-> <<>>]
            ELSE [error |-> "", chr |-> d.chr]

\* A Collect that notes a failed fetch (c.up.Set(0)) and goes on to the next
\* fetch instead of returning.
Request_ContinuesAfterFailure(p, op) ==
  /\ ~crashed
  /\ pc[p] = At("req", op)
  /\ \E outcome \in Outcomes :
       \E r \in {Fetch(op, url, outcome)} :
          /\ reqs' = [reqs EXCEPT ![p] =
                        Append(@, [op |-> op, path |-> url, outcome |-> outcome,
                                   error |-> r.error])]
          /\ jsonParseFailures' =
               IF r.error = "decode" THEN Inc(jsonParseFailures) ELSE jsonParseFailures
          /\ up' = IF r.error # "" THEN 0 ELSE up
          /\ pc' = [pc EXCEPT ![p] =
                      IF op = "management" THEN At("deferred", "")
                      ELSE At("set", NextOp(op))]
          /\ UNCHANGED <<nodes, metrics, stats, management>>
  /\ UNCHANGED <<broker, url, totalScrapes, values, managementData, panicking, crashed,
                 sent, invoked, memIn, memOut,
                 statsIn, statsOut>>

\* The rest of a fetch operation (http.NewRequest(u.String()) reads the shared
\* URL) and Collect's check of its error: c.up.Set(0) and return.
Request(p, op) ==
  /\ ~crashed
  /\ pc[p] = At("req", op)
  /\ \E outcome \in Outcomes :
       \E r \in {Fetch(op, url, outcome)} :
          /\ reqs' = [reqs EXCEPT ![p] =
                        Append(@, [op |-> op, path |-> url, outcome |-> outcome,
                                   error |-> r.error])]
          /\ jsonParseFailures' =
               IF r.error = "decode" THEN Inc(jsonParseFailures) ELSE jsonParseFailures
          /\ IF r.error # ""
             THEN /\ up' = 0
                  /\ pc' = [pc EXCEPT ![p] = At("deferred", "")]
                  /\ UNCHANGED <<nodes, metrics, stats, management>>
             ELSE /\ up' = up
                  /\ pc' = [pc EXCEPT ![p] =
                              IF op = "management" THEN At("assemble", "")
                              ELSE At("set", NextOp(op))]
                  /\ nodes' = IF op = "nodes" THEN [nodes EXCEPT ![p] = r.chr] ELSE nodes
                  /\ metrics' = IF op = "metrics" THEN [metrics EXCEPT ![p] = r.chr] ELSE metrics
                  /\ stats' = IF op = "stats" THEN [stats EXCEPT ![p] = r.chr] ELSE stats
                  /\ management' = IF op = "management"
                                   THEN [management EXCEPT ![p] = r.chr] ELSE management
  /\ UNCHANGED <<broker, url, totalScrapes, values, managementData, panicking, crashed,
                 sent, invoked, memIn, memOut,
                 statsIn, statsOut>>

\* The gauge value Collect sets from the snapshot.
Health(v) == IF v.nodes.Code = 0 THEN 1 ELSE 0

\* A snapshot whose cluster size counts only the records named c.node.
Snapshot_CountsMatches(p) ==
  combinedResponse(nodes[p], metrics[p], stats[p],
                   Cardinality({i \in DOMAIN management[p].Result :
                                  management[p].Result[i].Name = c_node}))

\* A snapshot made of another goroutine's results.
Snapshot_Shared(p) ==
  LET q == CHOOSE x \in Procs : x # p
  IN combinedResponse(nodes[q], metrics[q], stats[q], Len(management[q].Result))

\* The snapshot Collect assembles from its four results.
Snapshot(p) ==
  combinedResponse(nodes[p], metrics[p], stats[p], Len(management[p].Result))

\* After the four fetches: cluster size, the matching member, the snapshot,
\* the gauge, and the loop over the registry.
Assemble(p) ==
  /\ ~crashed
  /\ pc[p].at = "assemble"
  /\ \E v \in {Snapshot(p)}, md \in {RangeMatch(management[p].Result, 1, ZeroMember)} :
        /\ values' = [values EXCEPT ![p] = v]
        /\ managementData' = [managementData EXCEPT ![p] = md]
        /\ up' = Health(v)
        /\ sent' = [sent EXCEPT ![p] = Evaluate(v, md)]
        /\ panicking' = [panicking EXCEPT ![p] = FirstPanic(v) # 0]
  /\ pc' = [pc EXCEPT ![p] = At("deferred", "")]
  /\ UNCHANGED <<broker, url, totalScrapes, jsonParseFailures, nodes, metrics, stats,
                 management, crashed, reqs, invoked, memIn, memOut,
                 statsIn, statsOut>>

\* The three series the deferred function sends.
Meta ==
  << [name |-> "emq_node_up", value |-> up],
     [name |-> "emq_node_total_scrapes", value |-> totalScrapes],
     [name |-> "emq_node_json_parse_failures", value |-> jsonParseFailures] >>

\* The deferred function runs as Collect returns or unwinds, and Collect's
\* locals are gone; a panic that nothing recovers then ends the process.
Deferred(p) ==
  /\ ~crashed
  /\ pc[p].at = "deferred"
  /\ sent' = [sent EXCEPT ![p] = @ \o Meta]
  /\ crashed' = panicking[p]
  /\ pc' = [pc EXCEPT ![p] = At("done", "")]
  /\ nodes' = [nodes EXCEPT ![p] = nodesResponse]
  /\ metrics' = [metrics EXCEPT ![p] = metricsResponse]
  /\ stats' = [stats EXCEPT ![p] = statsResponse]
  /\ management' = [management EXCEPT ![p] = managementResponse]
  /\ values' = [values EXCEPT ![p] = ZeroValues]
  /\ managementData' = [managementData EXCEPT ![p] = ZeroMember]
  /\ reqs' = [reqs EXCEPT ![p] = <<>>]
  /\ UNCHANGED <<broker, url, up, totalScrapes, jsonParseFailures, panicking, invoked,
                 memIn, memOut,
                 statsIn, statsOut>>

Next ==
  \E p \in Procs :
    \/ Start(p)
    \/ \E op \in {"nodes", "metrics", "stats", "management"} : SetPath(p, op)
    \/ \E op \in {"nodes", "metrics", "stats", "management"} : Request(p, op)
    \/ Assemble(p)
    \/ Deferred(p)

Spec == Init /\ [][Next]_vars

(* ---------------- the memory extraction on its own --------------------- *)

\* The characters of the enumerated memory texts.
Chars == {"0", "1", "2", ".", "M"}

Texts(n) == UNION {[1..k -> Chars] : k \in 0..n}

\* The texts of the specification's examples.
Examples ==
  { <<"1", "2", "8", ".", "5", "M", "B">>,
    <<"1", ".", "2", ".", "3">>,
    <<"u", "n", "k", "n", "o", "w", "n">> }

InitMem ==
  /\ broker = Baseline
  /\ url = <<>>
  /\ up = 0
  /\ totalScrapes = 0
  /\ jsonParseFailures = 0
  /\ pc = [p \in Procs |-> At("idle", "")]
  /\ nodes = [p \in Procs |-> nodesResponse]
  /\ metrics = [p \in Procs |-> metricsResponse]
  /\ stats = [p \in Procs |-> statsResponse]
  /\ management = [p \in Procs |-> managementResponse]
  /\ values = [p \in Procs |-> ZeroValues]
  /\ managementData = [p \in Procs |-> ZeroMember]
  /\ panicking = [p \in Procs |-> FALSE]
  /\ crashed = FALSE
  /\ sent = [p \in Procs |-> <<>>]
  /\ reqs = [p \in Procs |-> <<>>]
  /\ invoked = 0
  /\ memIn \in Texts(MaxLen) \cup Examples
  /\ memOut = NotApplied
  /\ statsIn = [subscribers |-> 0, subscriptions |-> 0]
  /\ statsOut = NotEvaluated

\* The Value closure of a memory metric applied to the text memIn.
ApplyMemory ==
  /\ ~memOut.done
  /\ memOut' = [done |-> TRUE,
                panics |-> MemoryPanics(memIn),
                value |-> IF MemoryPanics(memIn) THEN float64(0) ELSE MemoryValue(memIn)]
  /\ UNCHANGED <<broker, url, up, totalScrapes, jsonParseFailures, pc, nodes, metrics,
                 stats, management, values, managementData, panicking, crashed, sent,
                 reqs, invoked, memIn, statsIn, statsOut>>

SpecMem == InitMem /\ [][ApplyMemory]_vars

(* ------------- the two subscriber entries on their own ----------------- *)

\* A stats document with the given subscribers and subscriptions counts.
StatsDocument(in) ==
  [shape |-> "object", code |-> 0,
   result |-> [k \in Keys(statsResponseResult) |->
     CASE k = "subscribers/count" -> in.subscribers
       [] k = "subscriptions/count" -> in.subscriptions
       [] OTHER -> 200 + KeyIndex(statsResponseResult, k)]]

\* The registry entry of a name.
Entry(name) == c_metrics[CHOOSE i \in DOMAIN c_metrics : c_metrics[i].name = name]

InitStats ==
  /\ broker = Baseline
  /\ url = <<>>
  /\ up = 0
  /\ totalScrapes = 0
  /\ jsonParseFailures = 0
  /\ pc = [p \in Procs |-> At("idle", "")]
  /\ nodes = [p \in Procs |-> nodesResponse]
  /\ metrics = [p \in Procs |-> metricsResponse]
  /\ stats = [p \in Procs |-> statsResponse]
  /\ management = [p \in Procs |-> managementResponse]
  /\ values = [p \in Procs |-> ZeroValues]
  /\ managementData = [p \in Procs |-> ZeroMember]
  /\ panicking = [p \in Procs |-> FALSE]
  /\ crashed = FALSE
  /\ sent = [p \in Procs |-> <<>>]
  /\ reqs = [p \in Procs |-> <<>>]
  /\ invoked = 0
  /\ memIn = <<>>
  /\ memOut = NotApplied
  /\ statsIn \in [subscribers : 0..MaxCount, subscriptions : 0..MaxCount]
  /\ statsOut = NotEvaluated

\* The Value closures of emq_stats_subscribers and emq_stats_subscriptions
\* applied to the snapshot whose stats are decoded from the document of
\* statsIn.
EvaluateStats ==
  /\ ~statsOut.done
  /\ \E v \in {combinedResponse(nodesResponse, metricsResponse,
                                 Decode("stats", StatsDocument(statsIn)).chr, 0)} :
       statsOut' = [done |-> TRUE,
                    subscribers |-> Value(Entry("emq_stats_subscribers"), v),
                    subscriptions |-> Value(Entry("emq_stats_subscriptions"), v)]
  /\ UNCHANGED <<broker, url, up, totalScrapes, jsonParseFailures, pc, nodes, metrics,
                 stats, management, values, managementData, panicking, crashed, sent,
                 reqs, invoked, memIn, memOut, statsIn>>

SpecStats == InitStats /\ [][EvaluateStats]_vars

(* ------------------------------ claims --------------------------------- *)

HasDigit(s) == \E i \in DOMAIN s : IsDigit(s[i])

\* The invocation of p has made its four fetches and none failed.
AllFetched(p) == Len(reqs[p]) = 4 /\ reqs[p][4].error = ""

\* The last fetch the invocation of p made failed.
SomeFailed(p) == reqs[p] # <<>> /\ reqs[p][Len(reqs[p])].error # ""

\* Steps of p: a fetch's request, the work after the fetches, the return.
Requests(p) == pc[p].at = "req" /\ pc'[p] # pc[p]

Assembles(p) == pc[p].at = "assemble" /\ pc'[p].at = "deferred"

Returns(p) == pc[p].at = "deferred" /\ pc'[p].at = "done"

\* One sample per registry entry, in registry order, and nothing else.
OnePerEntry(items) ==
  /\ Len(items) = Len(c_metrics)
  /\ \A i \in DOMAIN items : items[i].name = c_metrics[i].name

\* The three meta series, and nothing else.
ThreeMeta(items) ==
  /\ Len(items) = 3
  /\ items[1].name = "emq_node_up"
  /\ items[2].name = "emq_node_total_scrapes"
  /\ items[3].name = "emq_node_json_parse_failures"

\* What the sink holds when an invocation returns: the per-metric samples,
\* then the meta series.
Samples(items) == SubSeq(items, 1, Len(items) - 3)

Metas(items) == SubSeq(items, Len(items) - 2, Len(items))

\* C1: an invocation whose four fetches succeed hands the sink exactly one
\* sample per registry entry and the three meta series; one with a failed
\* fetch hands it exactly the three meta series.
C1_SamplesPerCycle ==
  [][\A p \in Procs :
       Returns(p) =>
         IF AllFetched(p)
         THEN OnePerEntry(Samples(sent'[p])) /\ ThreeMeta(Metas(sent'[p]))
         ELSE ThreeMeta(sent'[p])]_vars

\* C2: totalScrapes is the number of Collect invocations begun, overlapping
\* or not, and never decreases.
C2_TotalScrapes ==
  /\ [](totalScrapes = invoked)
  /\ [][totalScrapes' >= totalScrapes]_vars

\* Two invocations overlap, each mid-fetch, and the counter is 2.
C2_Witness ==
  /\ totalScrapes = 2
  /\ \A p \in Procs : pc[p].at = "req"

\* The fetch the invocation of p made last.
LastReq(p) == reqs[p][Len(reqs[p])]

\* C3: in each fetch operation a response that is not 200 is an error and
\* leaves jsonParseFailures alone; a 200 response whose body fails decoding
\* is an error and adds exactly 1; a transport failure and a success leave
\* it alone, and so does every step that is not a fetch.
C3_ParseFailures ==
  [][/\ \A p \in Procs :
          Requests(p) =>
            LET e == reqs'[p][Len(reqs'[p])]
            IN /\ e.outcome = "status" =>
                    e.error = "status" /\ jsonParseFailures' = jsonParseFailures
               /\ e.outcome = "malformed" =>
                    e.error = "decode" /\ jsonParseFailures' = jsonParseFailures + 1
               /\ e.outcome = "transport" =>
                    e.error = "transport" /\ jsonParseFailures' = jsonParseFailures
               /\ (e.outcome = "ok" /\ e.error = "decode") =>
                    jsonParseFailures' = jsonParseFailures + 1
               /\ e.error = "" => jsonParseFailures' = jsonParseFailures
     /\ (\A p \in Procs : ~Requests(p)) => jsonParseFailures' = jsonParseFailures]_vars

\* One invocation has met a non-200 response and the other a malformed body,
\* and the counter stands at 1.
C3_Witness ==
  /\ jsonParseFailures = 1
  /\ \E p, q \in Procs :
       /\ reqs[p] # <<>> /\ LastReq(p).outcome = "status"
       /\ reqs[q] # <<>> /\ LastReq(q).outcome = "malformed"

\* C4: with four successful fetches the gauge is set to 1 exactly when the
\* code in the decoded node status is 0, whatever the other payloads' codes,
\* and a non-zero code does not keep any per-metric sample from being sent.
C4_HealthFromNodesCode ==
  [][\A p \in Procs :
       Assembles(p) =>
         /\ up' = (IF nodes[p].Code = 0 THEN 1 ELSE 0)
         /\ nodes[p].Code # 0 => OnePerEntry(sent'[p])]_vars

\* The memory texts of the snapshot p holds that have no digit.
NoDigitFields(p) ==
  {f \in {"MemoryTotal", "MemoryUsed"} : ~HasDigit(nodes[p].Result[f])}

\* C5: when a memory field has no digit the extraction yields 0 and the cycle
\* goes on: every per-metric sample and the three meta series are sent and
\* the process keeps running.
C5_NoDigitFallsBackToZero ==
  [][\A p \in Procs :
       /\ (Assembles(p) /\ NoDigitFields(p) # {}) =>
            /\ OnePerEntry(sent'[p])
            /\ \A i \in DOMAIN c_metrics :
                 (c_metrics[i].from = "memory" /\ c_metrics[i].field \in NoDigitFields(p))
                   => sent'[p][i].value = float64(0)
       /\ Returns(p) => ThreeMeta(Metas(sent'[p])) /\ crashed' = FALSE]_vars

\* What the k-th fetch of p's invocation got: the decoding, as that fetch's
\* response type, of the document served at the path it requested.
Got(p, k) == Decode(Ops[k], Body(broker, Route(reqs[p][k].path))).chr

\* The snapshot and the member that follow from p's own four fetches.
OwnSnapshot(p) ==
  combinedResponse(Got(p, 1), Got(p, 2), Got(p, 3), Len(Got(p, 4).Result))

OwnMember(p) == RangeMatch(Got(p, 4).Result, 1, ZeroMember)

\* C7: the per-metric samples of an invocation are those of the one snapshot
\* made of its own four fetch results, under every interleaving, and no
\* sample is sent before four fetches have succeeded.
C7_OwnSnapshot ==
  \A p \in Procs :
    /\ pc[p].at \in {"set", "req", "assemble"} => sent[p] = <<>>
    /\ pc[p].at = "deferred" =>
         IF AllFetched(p)
         THEN sent[p] = Evaluate(OwnSnapshot(p), OwnMember(p))
         ELSE sent[p] = <<>>

\* An invocation has sent its samples while the other is between its fetches
\* with a result of its own that differs.
C7_Witness ==
  \E p, q \in Procs :
    /\ pc[p].at = "deferred" /\ AllFetched(p) /\ OnePerEntry(sent[p])
    /\ pc[q].at = "set" /\ pc[q].op = "metrics"
    /\ nodes[q] # nodes[p]

\* C8: an invocation in which a fetch failed hands the sink the gauge at 0,
\* whatever the other invocations do meanwhile.
C8_FailedCycleReportsDown ==
  [][\A p \in Procs :
       (Returns(p) /\ SomeFailed(p)) => sent'[p][1].value = 0]_vars

\* The gauge value the invocation of p has set.
OwnUp(p) == IF SomeFailed(p) THEN 0 ELSE Health(values[p])

\* C9: apart from the two counters no invocation sees what another wrote:
\* the path a fetch requests is the one that fetch set, and the gauge an
\* invocation hands over has the value that invocation set.
C9_CyclesIndependent ==
  [][\A p \in Procs :
       /\ Requests(p) => url = PathOf(pc[p].op)
       /\ Returns(p) => sent'[p][Len(sent'[p]) - 2].value = OwnUp(p)]_vars

\* C10: with four successful fetches and no member named c.node (or no
\* member at all), every per-metric sample is sent with an empty version
\* label, and the three meta series follow.
C10_NoMatchEmptyVersion ==
  [][\A p \in Procs :
       /\ (Assembles(p) /\ \A i \in DOMAIN management[p].Result :
                             management[p].Result[i].Name # c_node) =>
            /\ OnePerEntry(sent'[p])
            /\ \A i \in DOMAIN sent'[p] : sent'[p][i].version = ""
       /\ Returns(p) => ThreeMeta(Metas(sent'[p]))]_vars

\* C11: with four successful fetches the value of the cluster-size sample is
\* the number of records in the membership list the management fetch of
\* that invocation was served, whether or not a record is named c.node.
C11_ClusterSize ==
  \A p \in Procs :
    (pc[p].at = "deferred" /\ AllFetched(p)) =>
       /\ sent[p] # <<>>
       /\ sent[p][1].name = "emq_cluster_size"
       /\ sent[p][1].value =
            float64(Len(Body(broker, Route(reqs[p][4].path)).result))

\* Three records, one of them named c.node, have given 3.
C11_Witness ==
  \E p \in Procs :
    /\ pc[p].at = "deferred" /\ AllFetched(p)
    /\ Len(broker.management.members) = 3
    /\ sent[p][1].value = float64(3)

\* What each fetch operation decodes from the document the broker serves at
\* that operation's own endpoint.
Served(op) == Decode(op, Body(broker, op)).chr

\* The samples that follow from the broker's four documents.
ServedSamples ==
  Evaluate(combinedResponse(Served("nodes"), Served("metrics"), Served("stats"),
                            Len(Served("management").Result)),
           RangeMatch(Served("management").Result, 1, ZeroMember))

\* Every request the invocation of p has made was answered with the broker's
\* document (status 200, well-formed body).
AllAnswered(p) == \A k \in DOMAIN reqs[p] : reqs[p][k].outcome = "ok"

\* C12: when the broker answers every request with the same fixed document
\* per endpoint, every invocation, after another or overlapping it, sends
\* the same per-metric samples: those that follow from the four documents.
C12_Idempotent ==
  /\ \A p \in Procs :
       (pc[p].at = "deferred" /\ AllAnswered(p)) => sent[p] = ServedSamples
  /\ \A p, q \in Procs :
       (pc[p].at = "deferred" /\ AllAnswered(p) /\
        pc[q].at = "deferred" /\ AllAnswered(q)) => sent[p] = sent[q]

\* C13: within an invocation the fetches are made in the order nodes,
\* metrics, stats, management, each at most once, each only after all
\* earlier ones succeeded, and none after one that failed.
C13_FetchOrder ==
  \A p \in Procs :
    /\ Len(reqs[p]) <= 4
    /\ \A k \in DOMAIN reqs[p] :
         /\ reqs[p][k].op = Ops[k]
         /\ k < Len(reqs[p]) => reqs[p][k].error = ""
    /\ pc[p].at \in {"set", "req"} =>
         /\ \A k \in DOMAIN reqs[p] : reqs[p][k].error = ""
         /\ Len(reqs[p]) < 4
         /\ pc[p].op = Ops[Len(reqs[p]) + 1]
    /\ pc[p].at = "assemble" => AllFetched(p)

\* An invocation is about to return after its second fetch failed.
C13_Witness ==
  \E p \in Procs :
    /\ pc[p].at = "deferred"
    /\ Len(reqs[p]) = 2
    /\ reqs[p][1].error = "" /\ reqs[p][2].error # ""

\* C14: every fetch requests exactly the path of its own operation: between
\* a fetch's write of the path and its request no other fetch alters the
\* URL, whatever fetches of overlapping invocations do.
C14_OwnPath ==
  \A p \in Procs :
    /\ pc[p].at = "req" => url = PathOf(pc[p].op)
    /\ \A k \in DOMAIN reqs[p] : reqs[p][k].path = PathOf(reqs[p][k].op)

\* The records of p's membership list named c.node, by position.
Matches(p) ==
  {i \in DOMAIN management[p].Result : management[p].Result[i].Name = c_node}

\* C15 as amended: when more than one record of the membership list is named
\* c.node, the version label of the samples sent is the version of the last
\* such record in list order.
C15_LastMatchVersion ==
  [][\A p \in Procs :
       (Assembles(p) /\ Cardinality(Matches(p)) > 1) =>
          LET last == CHOOSE i \in Matches(p) : \A j \in Matches(p) : j <= i
          IN /\ sent'[p] # <<>>
             /\ \A i \in DOMAIN sent'[p] :
                  sent'[p][i].version = management[p].Result[last].Version]_vars

\* Two records named c.node, versions 2.3.11 then 2.4.0, have given 2.4.0.
C15_Witness ==
  \E p \in Procs :
    /\ pc[p].at = "deferred" /\ AllFetched(p)
    /\ Cardinality(Matches(p)) = 2
    /\ management[p].Result[1].Version = "2.3.11"
    /\ OnePerEntry(sent[p])
    /\ sent[p][1].version = "2.4.0"

\* C15: when more than one record of the membership list is named c.node,
\* the version label of the samples sent is the version of the first such
\* record in list order.
C15_FirstMatchVersion ==
  [][\A p \in Procs :
       (Assembles(p) /\ Cardinality(Matches(p)) > 1) =>
          LET first == CHOOSE i \in Matches(p) : \A j \in Matches(p) : i <= j
          IN /\ sent'[p] # <<>>
             /\ \A i \in DOMAIN sent'[p] :
                  sent'[p][i].version = management[p].Result[first].Version]_vars

\* The registry entries of a name, by position.
Entries(name) == {i \in DOMAIN c_metrics : c_metrics[i].name = name}

C17_FailuresAtMostScrapes == jsonParseFailures <= totalScrapes

\* Two invocations have both met a body that does not decode.
C17_Witness ==
  /\ totalScrapes = 2
  /\ jsonParseFailures = 2

\* The number a text denotes by its first maximal run of digits with an
\* optional single embedded decimal point, times one million: the run starts
\* at the first digit, takes every digit that follows, and goes on past one
\* "." only when a digit follows it.
Denoted(s) ==
  LET first == CHOOSE i \in DOMAIN s : IsDigit(s[i]) /\ \A j \in 1..(i - 1) : ~IsDigit(s[j])
      digitsFrom(i) == CHOOSE n \in 0..Len(s) :
                         /\ \A j \in i..(i + n - 1) : j <= Len(s) /\ IsDigit(s[j])
                         /\ i + n > Len(s) \/ ~IsDigit(s[i + n])
      whole == digitsFrom(first)
      point == first + whole
      embedded == point < Len(s) /\ s[point] = "." /\ IsDigit(s[point + 1])
      part == IF embedded THEN digitsFrom(point + 1) ELSE 0
      number == Natural(SubSeq(s, first, point - 1) \o SubSeq(s, point + 1, point + part))
  IN Float(number, 6 - part)

\* C6: for every memory text with a digit, the extracted value is the number
\* denoted by its first maximal run of digits with an optional single
\* embedded decimal point, times 1,000,000.
C6_FirstRunTimesMillion ==
  (memOut.done /\ HasDigit(memIn)) =>
     /\ ~memOut.panics
     /\ memOut.value = Denoted(memIn)

\* "128.5MB" has given 128500000.
C6_Witness ==
  /\ memOut.done
  /\ memIn = <<"1", "2", "8", ".", "5", "M", "B">>
  /\ memOut.value = Float(128500000, 0)

====
